---- MODULE Spec2Model ----
(***************************************************************************)
(* A model of git_gui.git_backend.Repository: the status reconciler        *)
(* (status), the ignore-list editor (ignore) and the index operations      *)
(* (stage, unstage, commit), over a working tree of a few files.           *)
(*                                                                         *)
(* The repository is three trees (HEAD, index, worktree), each a map from  *)
(* path to blob.  A blob is a record [mode, data]: mode is "file", "link"  *)
(* (a symbolic link) or "absent"; data is the content as a sequence of     *)
(* one-character strings.  The repository always has a HEAD commit.        *)
(*                                                                         *)
(* GitPython calls are modelled by what they run:                          *)
(*   index.diff('HEAD')  git diff --cached -R -M --raw HEAD  (a REVERSE    *)
(*                       diff: from the index to HEAD)                     *)
(*   index.diff(None)    git diff -M --raw         (index to worktree)     *)
(*   untracked_files     git status --porcelain --untracked-files          *)
(*   index.add(paths)    lstat + hash of every path, then one index write  *)
(*   index.reset(x)      git read-tree x  (x is the `commit' parameter)    *)
(*   index.commit(msg)   write-tree of the index, new commit, move HEAD    *)
(*   iter_commits(rev)   git rev-list <rev> --                             *)
(*   create_head/delete_head   git branch <name> <start>, git branch -d|-D *)
(*   remote.push(branch) git push --porcelain <remote> <branch>            *)
(*                                                                         *)
(* Four specifications share the variables.  Spec moves the three trees    *)
(* and leaves the history and the refs as they are; SpecIgnore is the      *)
(* ignore-list editor alone, with longer lists; SpecRefs moves the         *)
(* history, the branches, the tags and the remote and keeps the trees      *)
(* clean; SpecSubmodules moves the submodules.                             *)
(***************************************************************************)
EXTENDS Integers, Sequences, FiniteSets, TLC

VARIABLES head, index, wt, last,
          commits, heads, head_ref, tags, remotes, remote_refs, upstream,
          gitlinks, registered, moddirs, parents, calls

\* the refs and the history: commits is the sequence of commits made so far
\* (a commit's id is its position), heads and tags map a name to a commit id,
\* head_ref is the branch HEAD points at, remotes maps a remote's name to its
\* URL, remote_refs maps a branch to the commit refs/remotes/origin/<branch>
\* points at, and upstream is the set of branches with a configured upstream
refs == <<commits, heads, head_ref, tags, remotes, remote_refs, upstream>>

trees == <<head, index, wt>>

\* the submodules: gitlinks is the set of paths with a submodule entry in the
\* index, registered the set of submodules initialised in .git/config, moddirs
\* maps a submodule path to the state of its directory, parents is the set of
\* directories above the nested paths that exist, and calls is the sequence
\* of git commands the last operation ran
subs == <<gitlinks, registered, moddirs, parents, calls>>

vars == <<head, index, wt, last, commits, heads, head_ref, tags, remotes, remote_refs, upstream,
          gitlinks, registered, moddirs, parents, calls>>

(***************************************************************************)
(* Bounds.                                                                 *)
(***************************************************************************)
\* longest list of files handed to stage, unstage or ignore
MaxFiles == 1
\* longest ignore file, in characters
MaxIgnoreLen == 4
\* longest list of patterns handed to ignore when the editor runs alone
MaxIgnoreFiles == 2
\* most commits in the history
MaxCommits == 2

(***************************************************************************)
(* Paths and blobs.                                                        *)
(***************************************************************************)
GI == ".gitignore"

\* every path of the working tree, in the byte order git lists paths in
PathOrder == <<GI, "a", "b">>

AllPaths == {PathOrder[i] : i \in 1..Len(PathOrder)}

NL == "\n"

SP == " "

Absent == [mode |-> "absent", data |-> <<>>]

File(d) == [mode |-> "file", data |-> d]

Link(d) == [mode |-> "link", data |-> d]

Hello == File(<<"h">>)

HelloWorld == File(<<"h", "w">>)

Exists(blob) == blob.mode # "absent"

\* the characters of a file name or pattern (the names here are one character long)
Chars(name) == <<name>>

(***************************************************************************)
(* Sequence helpers.                                                       *)
(***************************************************************************)
Range(s) == {s[i] : i \in 1..Len(s)}

RECURSIVE SeqsUpTo(_, _)
SeqsUpTo(S, n) ==
  IF n = 0 THEN {<<>>}
  ELSE LET shorter == SeqsUpTo(S, n - 1)
       IN  shorter \cup {Append(s, x) : s \in shorter, x \in S}

(***************************************************************************)
(* Text: what Python and git make of the ignore file's characters.         *)
(***************************************************************************)
IsSpace(c) == c \in {SP, NL}

\* str.strip(): leading and trailing whitespace removed
RECURSIVE LStrip(_)
LStrip(s) ==
  IF s # <<>> /\ IsSpace(Head(s)) THEN LStrip(Tail(s)) ELSE s

RECURSIVE RStrip(_)
RStrip(s) ==
  IF s # <<>> /\ IsSpace(s[Len(s)]) THEN RStrip(SubSeq(s, 1, Len(s) - 1)) ELSE s

Strip(s) == RStrip(LStrip(s))

\* index of the first newline of s, or 0
RECURSIVE FirstNL(_, _)
FirstNL(s, i) ==
  IF i > Len(s) THEN 0
  ELSE IF s[i] = NL THEN i
  ELSE FirstNL(s, i + 1)

\* iterating a text file: its lines, each with its terminator when it has one
RECURSIVE ReadLines(_)
ReadLines(text) ==
  IF text = <<>> THEN <<>>
  ELSE LET n == FirstNL(text, 1)
       IN  IF n = 0 THEN <<text>>
           ELSE <<SubSeq(text, 1, n)>> \o ReadLines(SubSeq(text, n + 1, Len(text)))

\* existing = [line.strip() for line in fh if line.strip()]
RECURSIVE StripNonEmpty(_)
StripNonEmpty(lines) ==
  IF lines = <<>> THEN <<>>
  ELSE LET l == Strip(Head(lines))
       IN  IF l # <<>> THEN <<l>> \o StripNonEmpty(Tail(lines))
           ELSE StripNonEmpty(Tail(lines))

ExistingEntries(blob) ==
  IF Exists(blob) THEN StripNonEmpty(ReadLines(blob.data)) ELSE <<>>

\* the write loop of ignore: existing is not updated while the loop runs
RECURSIVE AppendNew(_, _, _)
AppendNew(text, existing, files) ==
  IF files = <<>> THEN text
  ELSE LET f == Chars(Head(files))
           written == IF f \notin Range(existing) THEN text \o f \o <<NL>> ELSE text
       IN  AppendNew(written, existing, Tail(files))

\* a line as git reads a pattern: without its terminator and trailing blanks
RECURSIVE TrimTrailingSpaces(_)
TrimTrailingSpaces(s) ==
  IF s # <<>> /\ s[Len(s)] \in {SP, NL}
  THEN TrimTrailingSpaces(SubSeq(s, 1, Len(s) - 1))
  ELSE s

\* the patterns git reads from the worktree's ignore file
GitIgnorePatterns(w) ==
  IF w[GI].mode = "file"
  THEN {TrimTrailingSpaces(l) : l \in Range(ReadLines(w[GI].data))} \ {<<>>}
  ELSE {}

Ignored(w, p) == Chars(p) \in GitIgnorePatterns(w)

(***************************************************************************)
(* git diff --raw -M between two trees, as GitPython's Diff objects.       *)
(***************************************************************************)
ChangeKind(old, new) ==
  IF ~Exists(old) THEN "A"
  ELSE IF ~Exists(new) THEN "D"
  ELSE IF old.mode # new.mode THEN "T"
  ELSE "M"

PathIndex(p) == CHOOSE i \in 1..Len(PathOrder) : PathOrder[i] = p

\* -M: a deleted path whose blob is identical to dest's, dest being added
RenameSources(old, new, dest) ==
  IF ~Exists(old[dest]) /\ Exists(new[dest])
  THEN {src \in AllPaths : Exists(old[src]) /\ ~Exists(new[src]) /\ old[src] = new[dest]}
  ELSE {}

FirstPath(S) == CHOOSE p \in S : \A q \in S : PathIndex(p) <= PathIndex(q)

IsRenameSource(old, new, p) ==
  \E dest \in AllPaths : p \in RenameSources(old, new, dest)

RECURSIVE DiffFrom(_, _, _)
DiffFrom(old, new, i) ==
  IF i > Len(PathOrder) THEN <<>>
  ELSE LET p == PathOrder[i]
           rest == DiffFrom(old, new, i + 1)
       IN  IF old[p] = new[p] \/ IsRenameSource(old, new, p) THEN rest
           ELSE IF RenameSources(old, new, p) # {}
           THEN <<[change_type |-> "R",
                   a_path |-> FirstPath(RenameSources(old, new, p)),
                   b_path |-> p]>> \o rest
           ELSE <<[change_type |-> ChangeKind(old[p], new[p]),
                   a_path |-> p, b_path |-> p]>> \o rest

\* repo.index.diff('HEAD'): the index against HEAD is a reverse diff (R=True),
\* so the old side is the index and the new side is HEAD
IndexDiffHead(h, i) == DiffFrom(i, h, 1)

\* repo.index.diff(None): index entries against the worktree; a worktree file
\* with no index entry is not part of this diff
IndexDiffWorktree(i, w) ==
  DiffFrom(i, [p \in AllPaths |-> IF Exists(i[p]) THEN w[p] ELSE Absent], 1)

\* repo.untracked_files: in the worktree, not in the index, not ignored
RECURSIVE UntrackedFrom(_, _, _)
UntrackedFrom(i, w, k) ==
  IF k > Len(PathOrder) THEN <<>>
  ELSE LET p == PathOrder[k]
       IN  IF Exists(w[p]) /\ ~Exists(i[p]) /\ ~Ignored(w, p)
           THEN <<p>> \o UntrackedFrom(i, w, k + 1)
           ELSE UntrackedFrom(i, w, k + 1)

UntrackedFiles(i, w) == UntrackedFrom(i, w, 1)

(***************************************************************************)
(* Repository.status                                                       *)
(***************************************************************************)
\* path = diff.b_path or diff.a_path
DiffPath(d) == IF d.b_path # "" THEN d.b_path ELSE d.a_path

\* a lookup with no default: the change kind itself becomes the code
IndexStatusNoDefault(code) == <<code, SP>>

\* {'A': 'A ', 'D': 'D ', 'R': 'R ', 'M': 'M '}.get(code, 'M ')
IndexStatus(code) ==
  IF code \in {"A", "D", "R", "M"} THEN <<code, SP>> ELSE <<"M", SP>>

\* {'A': ' A', 'D': ' D', 'R': ' R', 'M': ' M'}.get(code, ' M')
WorktreeStatus(code) ==
  IF code \in {"A", "D", "R", "M"} THEN <<SP, code>> ELSE <<SP, "M">>

StagedStatuses(diffs) ==
  [k \in 1..Len(diffs) |->
     [path |-> DiffPath(diffs[k]), status |-> IndexStatus(diffs[k].change_type)]]

RECURSIVE MergeUnstaged(_, _, _)
MergeUnstaged(statuses, staged_paths, diffs) ==
  IF diffs = <<>> THEN statuses
  ELSE LET path == DiffPath(Head(diffs))
           status == WorktreeStatus(Head(diffs).change_type)
           first == CHOOSE k \in 1..Len(statuses) :
                      /\ statuses[k].path = path
                      /\ \A j \in 1..(k - 1) : statuses[j].path # path
           merged ==
             IF path \in staged_paths
             THEN [k \in 1..Len(statuses) |->
                     IF k = first
                     THEN [path |-> statuses[k].path,
                           status |-> <<statuses[k].status[1], status[2]>>]
                     ELSE statuses[k]]
             ELSE Append(statuses, [path |-> path, status |-> status])
       IN  MergeUnstaged(merged, staged_paths, Tail(diffs))

\* the untracked records put first
PrependUntracked(statuses, untracked) ==
  [k \in 1..Len(untracked) |-> [path |-> untracked[k], status |-> <<"?", "?">>]] \o statuses

AppendUntracked(statuses, untracked) ==
  statuses \o [k \in 1..Len(untracked) |-> [path |-> untracked[k], status |-> <<"?", "?">>]]

StatusOf(h, i, w) ==
  LET staged == StagedStatuses(IndexDiffHead(h, i))
      staged_paths == {staged[k].path : k \in 1..Len(staged)}
      tracked == MergeUnstaged(staged, staged_paths, IndexDiffWorktree(i, w))
  IN  AppendUntracked(tracked, UntrackedFiles(i, w))

Status == StatusOf(head, index, wt)

(***************************************************************************)
(* Repository.diff                                                         *)
(***************************************************************************)
\* paths=[path]: the diff is limited to one path
LimitTo(tree, path) == [p \in AllPaths |-> IF p = path THEN tree[p] ELSE Absent]

\* index.diff(..., paths=[path]) with create_patch left False: the Diff objects
\* are built from the --raw lines
PathDiffs(h, i, w, path, cached) ==
  IF cached THEN IndexDiffHead(LimitTo(h, path), LimitTo(i, path))
  ELSE IndexDiffWorktree(LimitTo(i, path), LimitTo(w, path))

\* d.diff of a Diff built from a --raw line: the patch text is only filled in
\* when create_patch is set
DiffBytes(d) == <<>>

\* "".join(d.diff.decode(...) for d in diffs)
RECURSIVE JoinDiffs(_)
JoinDiffs(diffs) ==
  IF diffs = <<>> THEN <<>>
  ELSE DiffBytes(Head(diffs)) \o JoinDiffs(Tail(diffs))

\* the returned text, as its sequence of lines
DiffOf(h, i, w, path, cached) == JoinDiffs(PathDiffs(h, i, w, path, cached))

(***************************************************************************)
(* History and refs.  A commit is a record [parent, message]: parent is    *)
(* the id of its parent (0 for the root commit), message its message as a  *)
(* sequence of tokens.  A ref that does not exist maps to 0; a remote that *)
(* does not exist maps to the empty URL.                                   *)
(***************************************************************************)
BranchNames == {"master", "feature"}

TagNames == {"v1.0"}

RemoteNames == {"origin"}

Urls == {"u1", "u2"}

\* an argument left at its default
None == "<None>"

NoRemote == ""

\* c.hexsha[:7]
Hexsha(id) == <<"c1", "c2", "c3", "c4", "c5">>[id]

\* c.summary: the first line of the message
RECURSIVE Summary(_)
Summary(message) ==
  IF message = <<>> \/ Head(message) = NL THEN <<>>
  ELSE <<Head(message)>> \o Summary(Tail(message))

\* the commits reachable from a commit
RECURSIVE Ancestors(_, _)
Ancestors(cs, id) ==
  IF id = 0 THEN {} ELSE {id} \cup Ancestors(cs, cs[id].parent)

\* git rev-list: the commits reachable from id and not in excluded, newest first
RECURSIVE RevList(_, _, _)
RevList(cs, id, excluded) ==
  IF id = 0 \/ id \in excluded THEN <<>>
  ELSE <<id>> \o RevList(cs, cs[id].parent, excluded)

\* the commit HEAD resolves to
HeadCommit == heads[head_ref]

\* f"{c.hexsha[:7]} {c.summary}"
FullMessageLine(cs, id) == <<Hexsha(id), SP>> \o cs[id].message

CommitLine(cs, id) == <<Hexsha(id), SP>> \o Summary(cs[id].message)

\* "\n".join(lines)
RECURSIVE JoinLines(_, _)
JoinLines(cs, ids) ==
  IF ids = <<>> THEN <<>>
  ELSE IF Len(ids) = 1 THEN CommitLine(cs, ids[1])
  ELSE CommitLine(cs, ids[1]) \o <<NL>> \o JoinLines(cs, Tail(ids))

\* the value or the exception of a call
Returns(value) == [err |-> "ok", value |-> value]

Raises(err) == [err |-> err, value |-> <<>>]

(***************************************************************************)
(* Submodule paths: one at the top of the tree, two in a directory.        *)
(***************************************************************************)
SubPaths == {"mod", "libs/mod", "libs/util"}

\* the directory a nested path lies in; the top of the tree for the others
Top == "."

ParentOf(path) == IF path \in {"libs/mod", "libs/util"} THEN "libs" ELSE Top

ParentDirs == {ParentOf(p) : p \in SubPaths} \ {Top}

(***************************************************************************)
(* Inputs.                                                                 *)
(***************************************************************************)
\* the files the user works on; the ignore file is only written by ignore
UserPaths == {"a", "b"}

\* what an editor, ln -s or a copy puts in the worktree
Writes == {<<"a", Hello>>, <<"a", HelloWorld>>, <<"a", Link(<<"h">>)>>, <<"b", Hello>>}

FileLists == SeqsUpTo(UserPaths, MaxFiles)

\* the ignore file the repository is opened with: none, or one pattern whose
\* line has no terminator
InitIgnoreFiles == {Absent, File(<<"a">>)}

Operation(op, files, err) == [op |-> op, files |-> files, err |-> err]

(***************************************************************************)
(* The state after Repository(path) on a tree with one commit.             *)
(***************************************************************************)
Init ==
  \E gi \in InitIgnoreFiles : \E tracked \in BOOLEAN :
    /\ wt = [p \in AllPaths |-> IF p = "a" THEN Hello ELSE IF p = GI THEN gi ELSE Absent]
    /\ index = [p \in AllPaths |->
                  IF p = "a" THEN Hello
                  ELSE IF p = GI /\ tracked THEN gi
                  ELSE Absent]
    /\ head = index
    /\ last = Operation("init", <<>>, "ok")
    /\ commits = <<[parent |-> 0, message |-> <<"init">>]>>
    /\ heads = [b \in BranchNames |-> IF b = "master" THEN 1 ELSE 0]
    /\ head_ref = "master"
    /\ tags = [t \in TagNames |-> 0]
    /\ remotes = [r \in RemoteNames |-> NoRemote]
    /\ remote_refs = [b \in BranchNames |-> 0]
    /\ upstream = {}
    /\ gitlinks = {}
    /\ registered = {}
    /\ moddirs = [p \in SubPaths |-> "missing"]
    /\ parents = {}
    /\ calls = <<>>

(***************************************************************************)
(* Repository.stage: index.add(files)                                      *)
(***************************************************************************)
\* index.add stats every path before it writes the index
AddRaises(w, files) == \E f \in Range(files) : ~Exists(w[f])

IndexAdd(i, w, files) ==
  IF AddRaises(w, files) THEN i
  ELSE [p \in AllPaths |-> IF p \in Range(files) THEN w[p] ELSE i[p]]

stage(files) ==
  /\ index' = IF files # <<>> THEN IndexAdd(index, wt, files) ELSE index
  /\ last' = Operation("stage", files,
                       IF files # <<>> /\ AddRaises(wt, files)
                       THEN "FileNotFoundError" ELSE "ok")
  /\ UNCHANGED <<head, wt>>
  /\ UNCHANGED refs
  /\ UNCHANGED subs

(***************************************************************************)
(* Repository.unstage: index.reset(files); the list is reset's first       *)
(* parameter, commit, and paths stays None                                 *)
(***************************************************************************)
\* the names git read-tree resolves to a tree
IsTreeish(name) == name = "HEAD"

ResetRaises(files) == \E f \in Range(files) : ~IsTreeish(f)

\* with paths None the entries read from the tree replace the whole index
IndexReset(h, i, files) == IF ResetRaises(files) THEN i ELSE h

unstage(files) ==
  /\ index' = IF files # <<>> THEN IndexReset(head, index, files) ELSE index
  /\ last' = Operation("unstage", files,
                       IF files # <<>> /\ ResetRaises(files)
                       THEN "GitCommandError" ELSE "ok")
  /\ UNCHANGED <<head, wt>>
  /\ UNCHANGED refs
  /\ UNCHANGED subs

(***************************************************************************)
(* Repository.commit: index.commit(message)                                *)
(***************************************************************************)
\* a commit that first stages every tracked file present in the worktree (commit -a)
commitStagingTracked ==
  /\ index' = [p \in AllPaths |-> IF Exists(index[p]) /\ Exists(wt[p]) THEN wt[p] ELSE index[p]]
  /\ head' = index'
  /\ last' = Operation("commit", <<>>, "ok")
  /\ UNCHANGED wt
  /\ UNCHANGED refs
  /\ UNCHANGED subs

\* a commit that records nothing: HEAD keeps its tree
commitLeavingHead ==
  /\ last' = Operation("commit", <<>>, "ok")
  /\ UNCHANGED <<head, index, wt>>
  /\ UNCHANGED refs
  /\ UNCHANGED subs

commit ==
  /\ head' = index
  /\ last' = Operation("commit", <<>>, "ok")
  /\ UNCHANGED <<index, wt>>
  /\ UNCHANGED refs
  /\ UNCHANGED subs

(***************************************************************************)
(* Repository.ignore                                                       *)
(***************************************************************************)
\* the ignore file after the append-mode open and the write loop
IgnoreWrite(blob, files) ==
  File(AppendNew(IF Exists(blob) THEN blob.data ELSE <<>>, ExistingEntries(blob), files))

ignoreBody(files) ==
  /\ Len(IgnoreWrite(wt[GI], files).data) <= MaxIgnoreLen
  /\ wt' = [wt EXCEPT ![GI] = IgnoreWrite(wt[GI], files)]
  /\ index' = IndexAdd(index, wt', <<GI>>)
  /\ UNCHANGED head

\* ignore without its early return
ignoreUnguarded(files) ==
  /\ ignoreBody(files)
  /\ last' = Operation("ignore", files, "ok")
  /\ UNCHANGED refs
  /\ UNCHANGED subs

ignore(files) ==
  /\ IF files = <<>> THEN UNCHANGED <<head, index, wt>> ELSE ignoreBody(files)
  /\ last' = Operation("ignore", files, "ok")
  /\ UNCHANGED refs
  /\ UNCHANGED subs

(***************************************************************************)
(* What happens to the tree outside the Repository object.                 *)
(***************************************************************************)
WriteFile(p, blob) ==
  /\ wt[p] # blob
  /\ wt' = [wt EXCEPT ![p] = blob]
  /\ last' = Operation("edit", <<p>>, "ok")
  /\ UNCHANGED <<head, index>>
  /\ UNCHANGED refs
  /\ UNCHANGED subs

DeleteFile(p) ==
  /\ Exists(wt[p])
  /\ wt' = [wt EXCEPT ![p] = Absent]
  /\ last' = Operation("edit", <<p>>, "ok")
  /\ UNCHANGED <<head, index>>
  /\ UNCHANGED refs
  /\ UNCHANGED subs

\* git rm --cached p
RmCached(p) ==
  /\ Exists(index[p])
  /\ index' = [index EXCEPT ![p] = Absent]
  /\ last' = Operation("edit", <<p>>, "ok")
  /\ UNCHANGED <<head, wt>>
  /\ UNCHANGED refs
  /\ UNCHANGED subs

Next ==
  \/ \E files \in FileLists : stage(files)
  \/ \E files \in FileLists : unstage(files)
  \/ commit
  \/ \E files \in FileLists : ignore(files)
  \/ \E w \in Writes : WriteFile(w[1], w[2])
  \/ \E p \in UserPaths : DeleteFile(p)
  \/ \E p \in UserPaths : RmCached(p)

Spec == Init /\ [][Next]_vars

(***************************************************************************)
(* The ignore-list editor alone, with lists that can name a pattern more   *)
(* than once, over a worktree whose files come and go.                     *)
(***************************************************************************)
IgnoreLists == SeqsUpTo(UserPaths, MaxIgnoreFiles)

NextIgnore ==
  \/ \E files \in IgnoreLists : ignore(files)
  \/ \E w \in Writes : WriteFile(w[1], w[2])
  \/ \E p \in UserPaths : DeleteFile(p)

SpecIgnore == Init /\ [][NextIgnore]_vars

(***************************************************************************)
(* Repository.__init__: Repo(path), then the bare test                     *)
(***************************************************************************)
\* what a path can be: nothing, a directory without .git, a bare repository,
\* a repository with a working tree
PathKinds == {"missing", "plain", "bare", "worktree"}

\* the exception Repo(path) raises
RepoOpen(kind) ==
  IF kind = "missing" THEN "NoSuchPathError"
  ELSE IF kind = "plain" THEN "InvalidGitRepositoryError"
  ELSE "ok"

construct(kind) ==
  /\ last' = Operation("construct", <<kind>>,
                       IF RepoOpen(kind) = "GitCommandError" THEN "ValueError"
                       ELSE IF RepoOpen(kind) # "ok" THEN RepoOpen(kind)
                       ELSE IF kind = "bare" THEN "ValueError"
                       ELSE "ok")
  /\ UNCHANGED <<trees, refs, subs>>

(***************************************************************************)
(* Repository.commit, with the history: the new commit has the index as    *)
(* its tree and HEAD's commit as its parent, and the checked-out branch    *)
(* moves to it                                                             *)
(***************************************************************************)
Messages == {<<"fix">>, <<"add", NL, "body">>}

commitMessage(message) ==
  /\ Len(commits) < MaxCommits
  /\ head' = index
  /\ commits' = Append(commits, [parent |-> HeadCommit, message |-> message])
  /\ heads' = [b \in BranchNames |-> IF b = head_ref THEN Len(commits) + 1 ELSE heads[b]]
  /\ last' = Operation("commit", message, "ok")
  /\ UNCHANGED <<index, wt, subs, head_ref, tags, remotes, remote_refs, upstream>>

(***************************************************************************)
(* Repository.current_branch, Repository.branches                          *)
(***************************************************************************)
current_branch ==
  IF head_ref \in BranchNames THEN Returns(head_ref) ELSE Raises("TypeError")

branches == {b \in BranchNames : heads[b] # 0}

(***************************************************************************)
(* Repository.checkout: heads[branch].checkout()                           *)
(***************************************************************************)
checkout(branch) ==
  /\ head_ref' = IF heads[branch] # 0 THEN branch ELSE head_ref
  /\ last' = Operation("checkout", <<branch>>,
                       IF heads[branch] # 0 THEN "ok" ELSE "IndexError")
  /\ UNCHANGED <<trees, subs, commits, heads, tags, remotes, remote_refs, upstream>>

(***************************************************************************)
(* Repository.create_branch: git branch <name> <start_point or HEAD>       *)
(***************************************************************************)
StartPoints == {None, "master"}

\* the commit a start point names, 0 when it names none
Resolve(start_point) ==
  IF start_point = None THEN HeadCommit ELSE heads[start_point]

CreateFails(name, start_point) == heads[name] # 0 \/ Resolve(start_point) = 0

create_branch(name, start_point) ==
  /\ heads' = [b \in BranchNames |->
                 IF b = name /\ ~CreateFails(name, start_point)
                 THEN Resolve(start_point) ELSE heads[b]]
  /\ last' = Operation("create_branch", <<name, start_point>>,
                       IF CreateFails(name, start_point) THEN "GitCommandError" ELSE "ok")
  /\ UNCHANGED <<trees, subs, commits, head_ref, tags, remotes, remote_refs, upstream>>

(***************************************************************************)
(* Repository.delete_branch: git branch -d <name>, -D with force           *)
(***************************************************************************)
\* the commit git branch -d wants the branch merged into: its upstream when
\* one is configured, else HEAD
MergeTarget(name) ==
  IF name \in upstream /\ remote_refs[name] # 0 THEN remote_refs[name] ELSE HeadCommit

Merged(name) == heads[name] \in Ancestors(commits, MergeTarget(name))

\* a deletion that never asks whether the branch is merged
DeleteFailsNoMergeTest(name, force) == heads[name] = 0 \/ head_ref = name

DeleteFails(name, force) ==
  \/ heads[name] = 0
  \/ head_ref = name
  \/ ~force /\ ~Merged(name)

delete_branch(name, force) ==
  /\ heads' = [b \in BranchNames |->
                 IF b = name /\ ~DeleteFails(name, force) THEN 0 ELSE heads[b]]
  /\ upstream' = IF DeleteFails(name, force) THEN upstream ELSE upstream \ {name}
  /\ last' = Operation("delete_branch", <<name, IF force THEN "force" ELSE "safe">>,
                       IF DeleteFails(name, force) THEN "GitCommandError" ELSE "ok")
  /\ UNCHANGED <<trees, subs, commits, head_ref, tags, remotes, remote_refs>>

(***************************************************************************)
(* Repository.create_tag, delete_tag, checkout_tag                         *)
(***************************************************************************)
TagMessages == {None, "release"}

\* git tag <name> HEAD, with -m for an annotated tag
create_tag(name, message) ==
  /\ tags' = [t \in TagNames |-> IF t = name /\ tags[t] = 0 THEN HeadCommit ELSE tags[t]]
  /\ last' = Operation("create_tag", <<name, message>>,
                       IF tags[name] # 0 THEN "GitCommandError" ELSE "ok")
  /\ UNCHANGED <<trees, subs, commits, heads, head_ref, remotes, remote_refs, upstream>>

\* git tag -d <name>
delete_tag(name) ==
  /\ tags' = [t \in TagNames |-> IF t = name THEN 0 ELSE tags[t]]
  /\ last' = Operation("delete_tag", <<name>>,
                       IF tags[name] = 0 THEN "GitCommandError" ELSE "ok")
  /\ UNCHANGED <<trees, subs, commits, heads, head_ref, remotes, remote_refs, upstream>>

\* tags[name] is a TagReference, and only Head has a checkout method
checkout_tag(name) ==
  /\ last' = Operation("checkout_tag", <<name>>,
                       IF tags[name] = 0 THEN "IndexError" ELSE "AttributeError")
  /\ UNCHANGED <<trees, refs, subs>>

(***************************************************************************)
(* Repository.add_remote                                                   *)
(***************************************************************************)
\* create_remote called whatever remotes exist: git remote add fails on a
\* name that is taken
addRemoteUnguarded(name, url) ==
  /\ remotes' = [r \in RemoteNames |->
                   IF r = name /\ remotes[r] = NoRemote THEN url ELSE remotes[r]]
  /\ last' = Operation("add_remote", <<name, url>>,
                       IF remotes[name] # NoRemote THEN "GitCommandError" ELSE "ok")
  /\ UNCHANGED <<trees, subs, commits, heads, head_ref, tags, remote_refs, upstream>>

add_remote(name, url) ==
  /\ remotes' = IF name \notin {r \in RemoteNames : remotes[r] # NoRemote}
                THEN [r \in RemoteNames |-> IF r = name THEN url ELSE remotes[r]]
                ELSE remotes
  /\ last' = Operation("add_remote", <<name, url>>, "ok")
  /\ UNCHANGED <<trees, subs, commits, heads, head_ref, tags, remote_refs, upstream>>

(***************************************************************************)
(* Repository.push: remotes[remote].push(branch) or .push()                *)
(***************************************************************************)
\* the branch git push sends: the one named, else the checked-out one
PushBranch(branch) == IF branch = None THEN head_ref ELSE branch

\* git push exits with nothing but a fatal message: no such local branch,
\* or no upstream to push the current branch to
PushDies(branch) ==
  IF branch = None THEN head_ref \notin upstream ELSE heads[branch] = 0

\* the remote refuses an update that is not a fast-forward of its branch
Rejected(branch) ==
  /\ remote_refs[PushBranch(branch)] # 0
  /\ remote_refs[PushBranch(branch)] \notin Ancestors(commits, heads[PushBranch(branch)])

\* Remote.push raises only when git printed no result line: a rejected ref is
\* a result line, and the PushInfo list comes back with its error flag set
PushResult(remote, branch) ==
  IF remotes[remote] = NoRemote THEN "IndexError"
  ELSE IF PushDies(branch) THEN "GitCommandError"
  ELSE "ok"

Pushed(remote, branch) == PushResult(remote, branch) = "ok" /\ ~Rejected(branch)

push(remote, branch) ==
  /\ remote_refs' = [b \in BranchNames |->
                       IF b = PushBranch(branch) /\ Pushed(remote, branch)
                       THEN heads[b] ELSE remote_refs[b]]
  /\ last' = Operation("push", <<remote, branch>>, PushResult(remote, branch))
  /\ UNCHANGED <<trees, subs, commits, heads, head_ref, tags, remotes, upstream>>

(***************************************************************************)
(* Repository.push_review: iter_commits("<remote>/<branch>..HEAD")         *)
(***************************************************************************)
\* the commit a remote-tracking name resolves to, 0 when there is no such ref
RemoteRef(remote, branch) ==
  IF remotes[remote] = NoRemote \/ branch \notin BranchNames THEN 0
  ELSE remote_refs[branch]

ReviewRange(remote, branch) ==
  RevList(commits, HeadCommit, Ancestors(commits, RemoteRef(remote, branch)))

push_review(remote, branch) ==
  IF branch = None /\ current_branch.err # "ok" THEN Raises(current_branch.err)
  ELSE LET b == IF branch = None THEN current_branch.value ELSE branch
       IN  IF RemoteRef(remote, b) = 0 THEN Raises("GitCommandError")
           ELSE Returns(JoinLines(commits, ReviewRange(remote, b)))

(***************************************************************************)
(* Repository.search_commits: iter_commits("--grep=<pattern>"), the author *)
(* appended to the same argument                                           *)
(***************************************************************************)
SearchRev(pattern, author) ==
  <<"--grep=", pattern>> \o (IF author = None THEN <<>> ELSE <<SP, "--author=", author>>)

\* an argument that starts with -- is an option and names no revision
NamesRevision(rev) == rev # <<>> /\ rev[1] \notin {"--grep=", "--author="}

\* git rev-list <rev> --  prints its usage and exits with 129 when no
\* revision is among its arguments
search_commits(pattern, author) ==
  IF NamesRevision(SearchRev(pattern, author))
  THEN Returns(JoinLines(commits, RevList(commits, HeadCommit, {})))
  ELSE Raises("GitCommandError")

(***************************************************************************)
(* The history and the refs: a repository with one commit on master,       *)
(* either with no remote or with origin set up by a first push -u.  The    *)
(* trees stay clean, every commit has the tree of the first.               *)
(***************************************************************************)
InitRefs ==
  \E pushed \in BOOLEAN :
    /\ wt = [p \in AllPaths |-> IF p = "a" THEN Hello ELSE Absent]
    /\ index = wt
    /\ head = wt
    /\ last = Operation("init", <<>>, "ok")
    /\ commits = <<[parent |-> 0, message |-> <<"init">>]>>
    /\ heads = [b \in BranchNames |-> IF b = "master" THEN 1 ELSE 0]
    /\ head_ref = "master"
    /\ tags = [t \in TagNames |-> 0]
    /\ remotes = [r \in RemoteNames |-> IF pushed THEN "u1" ELSE NoRemote]
    /\ remote_refs = [b \in BranchNames |-> IF pushed /\ b = "master" THEN 1 ELSE 0]
    /\ upstream = IF pushed THEN {"master"} ELSE {}
    /\ gitlinks = {}
    /\ registered = {}
    /\ moddirs = [p \in SubPaths |-> "missing"]
    /\ parents = {}
    /\ calls = <<>>

NextRefs ==
  \/ \E kind \in PathKinds : construct(kind)
  \/ \E message \in Messages : commitMessage(message)
  \/ \E branch \in BranchNames : checkout(branch)
  \/ \E name \in BranchNames : \E start_point \in StartPoints : create_branch(name, start_point)
  \/ \E name \in BranchNames : \E force \in BOOLEAN : delete_branch(name, force)
  \/ \E name \in TagNames : \E message \in TagMessages : create_tag(name, message)
  \/ \E name \in TagNames : delete_tag(name)
  \/ \E name \in TagNames : checkout_tag(name)
  \/ \E name \in RemoteNames : \E url \in Urls : add_remote(name, url)
  \/ \E remote \in RemoteNames : \E branch \in BranchNames \cup {None} : push(remote, branch)

SpecRefs == InitRefs /\ [][NextRefs]_vars

(***************************************************************************)
(* Repository.remove_submodule: git submodule deinit -f -- path, then,     *)
(* when the path exists on disk, git rm -f path and git clean -fd          *)
(***************************************************************************)
ParentExists(path) == ParentOf(path) = Top \/ ParentOf(path) \in parents

\* git submodule deinit stops on a path that is no submodule of the index
DeinitFails(path) == path \notin gitlinks

\* deinit empties the submodule's directory and makes it anew, which it
\* cannot do (and only says so) under a directory that is gone
DirAfterDeinit(path) == IF ParentExists(path) THEN "empty" ELSE "missing"

\* os.path.exists(module_path)
ModuleExists(path) == ~DeinitFails(path) /\ DirAfterDeinit(path) # "missing"

remove_submodule(path) ==
  /\ registered' = IF DeinitFails(path) THEN registered ELSE registered \ {path}
  /\ gitlinks' = IF ModuleExists(path) THEN gitlinks \ {path} ELSE gitlinks
  /\ moddirs' = [p \in SubPaths |->
                   IF p # path \/ DeinitFails(path) THEN moddirs[p]
                   ELSE IF ModuleExists(path) THEN "missing"
                   ELSE DirAfterDeinit(path)]
  /\ calls' = IF ModuleExists(path) THEN <<"deinit", "rm", "clean">> ELSE <<"deinit">>
  /\ last' = Operation("remove_submodule", <<path>>,
                       IF DeinitFails(path) THEN "GitCommandError" ELSE "ok")
  /\ UNCHANGED <<trees, refs, parents>>

(***************************************************************************)
(* What happens to the submodule directories outside the Repository.       *)
(***************************************************************************)
\* rm -rf of a submodule's directory
RemoveModuleDir(path) ==
  /\ moddirs[path] # "missing"
  /\ moddirs' = [p \in SubPaths |-> IF p = path THEN "missing" ELSE moddirs[p]]
  /\ calls' = <<>>
  /\ last' = Operation("rmdir", <<path>>, "ok")
  /\ UNCHANGED <<trees, refs, gitlinks, registered, parents>>

\* rm -rf of a directory that holds submodules
RemoveParentDir(dir) ==
  /\ dir \in parents
  /\ parents' = parents \ {dir}
  /\ moddirs' = [p \in SubPaths |-> IF ParentOf(p) = dir THEN "missing" ELSE moddirs[p]]
  /\ calls' = <<>>
  /\ last' = Operation("rmdir", <<dir>>, "ok")
  /\ UNCHANGED <<trees, refs, gitlinks, registered>>

\* mkdir of such a directory
MakeParentDir(dir) ==
  /\ dir \notin parents
  /\ parents' = parents \cup {dir}
  /\ calls' = <<>>
  /\ last' = Operation("mkdir", <<dir>>, "ok")
  /\ UNCHANGED <<trees, refs, gitlinks, registered, moddirs>>

(***************************************************************************)
(* The submodules: a clean repository in which any of the paths may be a   *)
(* submodule, added, cloned and committed.                                 *)
(***************************************************************************)
InitSubmodules ==
  \E added \in SUBSET SubPaths :
    /\ wt = [p \in AllPaths |-> IF p = "a" THEN Hello ELSE Absent]
    /\ index = wt
    /\ head = wt
    /\ last = Operation("init", <<>>, "ok")
    /\ commits = <<[parent |-> 0, message |-> <<"init">>]>>
    /\ heads = [b \in BranchNames |-> IF b = "master" THEN 1 ELSE 0]
    /\ head_ref = "master"
    /\ tags = [t \in TagNames |-> 0]
    /\ remotes = [r \in RemoteNames |-> NoRemote]
    /\ remote_refs = [b \in BranchNames |-> 0]
    /\ upstream = {}
    /\ gitlinks = added
    /\ registered = added
    /\ moddirs = [p \in SubPaths |-> IF p \in added THEN "populated" ELSE "missing"]
    /\ parents = {ParentOf(p) : p \in added} \ {Top}
    /\ calls = <<>>

NextSubmodules ==
  \/ \E path \in SubPaths : remove_submodule(path)
  \/ \E path \in SubPaths : RemoveModuleDir(path)
  \/ \E dir \in ParentDirs : RemoveParentDir(dir)
  \/ \E dir \in ParentDirs : MakeParentDir(dir)

SpecSubmodules == InitSubmodules /\ [][NextSubmodules]_vars

(***************************************************************************)
(* Vocabulary of the properties.                                           *)
(***************************************************************************)
StatusNext == StatusOf(head', index', wt')

Untracked == <<"?", "?">>

\* the records of a status sequence for one path
RecordsOf(S, p) == {k \in 1..Len(S) : S[k].path = p}

\* the worktree-slot characters a status sequence reports for one path
WorktreeSlots(S, p) == {S[k].status[2] : k \in RecordsOf(S, p)} \ {SP}

\* in the worktree, with no index entry, and matched by no ignore pattern
IsUntracked(i, w, p) == Exists(w[p]) /\ ~Exists(i[p]) /\ ~Ignored(w, p)

\* the lines of the ignore file, without terminators; a last line with no
\* terminator is a line
RECURSIVE Unterminated(_)
Unterminated(lines) ==
  IF lines = <<>> THEN <<>>
  ELSE LET l == Head(lines)
       IN  <<IF l[Len(l)] = NL THEN SubSeq(l, 1, Len(l) - 1) ELSE l>>
             \o Unterminated(Tail(lines))

LinesOf(blob) == IF Exists(blob) THEN Unterminated(ReadLines(blob.data)) ELSE <<>>

CountLines(blob, line) ==
  Cardinality({k \in 1..Len(LinesOf(blob)) : LinesOf(blob)[k] = line})

\* the entries of files that are no line of the ignore file, in input order
RECURSIVE NewEntries(_, _)
NewEntries(blob, files) ==
  IF files = <<>> THEN <<>>
  ELSE IF Chars(Head(files)) \in Range(LinesOf(blob)) THEN NewEntries(blob, Tail(files))
  ELSE <<Chars(Head(files))>> \o NewEntries(blob, Tail(files))

(***************************************************************************)
(* C1: one status() call reports each path in at most one record, in every *)
(* reachable state of the working tree, a path removed from the index but  *)
(* still on disk included.                                                 *)
(***************************************************************************)
C1_OneRecordPerPath ==
  \A j, k \in 1..Len(Status) : Status[j].path = Status[k].path => j = k

(***************************************************************************)
(* C2: every record's status is two characters: "??", or a pair drawn from *)
(* A, M, D, R and blank with at least one of them not blank; this holds    *)
(* for every change kind git reports, a type change included.              *)
(***************************************************************************)
SlotCodes == {"A", "M", "D", "R", SP}

C2_StatusCodes ==
  \A k \in 1..Len(Status) :
    LET s == Status[k].status
    IN  /\ Len(s) = 2
        /\ \/ s = Untracked
           \/ /\ s[1] \in SlotCodes
              /\ s[2] \in SlotCodes
              /\ s # <<SP, SP>>

\* a type change is staged (a file replaced by a symbolic link) and reported
C2_Witness ==
  \E k \in 1..Len(IndexDiffHead(head, index)) :
    /\ IndexDiffHead(head, index)[k].change_type = "T"
    /\ Status[k].status[1] = "M"

(***************************************************************************)
(* C3: every untracked path has a record whose status is exactly "??", and *)
(* every "??" record comes after every record of a tracked path.           *)
(***************************************************************************)
C3_UntrackedLast ==
  /\ \A p \in AllPaths :
       IsUntracked(index, wt, p) =>
         \E k \in 1..Len(Status) : Status[k] = [path |-> p, status |-> Untracked]
  /\ \A j, k \in 1..Len(Status) :
       (j < k /\ Status[j].status = Untracked) => Status[k].status = Untracked

\* a tracked path's record is followed by an untracked path's record
C3_Witness ==
  \E j, k \in 1..Len(Status) :
    /\ j < k
    /\ Status[j].path # Status[k].path
    /\ Status[j].status # Untracked
    /\ Status[k].status = Untracked
    /\ IsUntracked(index, wt, Status[k].path)

(***************************************************************************)
(* C4: after stage([P]), status() has no record for P with a non-blank     *)
(* worktree slot if P had a worktree change or was untracked before the    *)
(* call, and P's record is as before if P had no worktree change.          *)
(***************************************************************************)
C4_StageClearsWorktreeSlot ==
  [][\A p \in UserPaths :
       (last'.op = "stage" /\ last'.files = <<p>>) =>
         IF WorktreeSlots(Status, p) # {}
         THEN WorktreeSlots(StatusNext, p) = {}
         ELSE wt[p] = index[p] =>
                {StatusNext[k] : k \in RecordsOf(StatusNext, p)}
                  = {Status[k] : k \in RecordsOf(Status, p)}]_vars

(***************************************************************************)
(* C5: for a non-empty list P, unstage(P) makes the index entries of       *)
(* exactly the paths of P equal to HEAD and changes no worktree file (so   *)
(* that stage(P) then unstage(P) restores the index entries of P that      *)
(* equalled HEAD before the stage).                                        *)
(***************************************************************************)
C5_UnstageResetsToHead ==
  [][(last'.op = "unstage" /\ last'.files # <<>>) =>
       /\ \A p \in AllPaths :
            index'[p] = IF p \in Range(last'.files) THEN head[p] ELSE index[p]
       /\ wt' = wt]_vars

(***************************************************************************)
(* C6: commit builds the commit from the index only and stages nothing: a  *)
(* path whose change is only in the worktree, or which is untracked, is    *)
(* not part of the commit, and the next status() reports it with the same  *)
(* worktree-slot flag (or "??") as before the commit.                      *)
(***************************************************************************)
C6_CommitFromIndexOnly ==
  [][last'.op = "commit" =>
       /\ head' = index
       /\ index' = index
       /\ wt' = wt
       /\ \A p \in AllPaths :
            wt[p] # index[p] =>
              /\ head'[p] # wt[p]
              /\ WorktreeSlots(StatusNext, p) = WorktreeSlots(Status, p)]_vars

\* a commit has just been made while a path carries a worktree-only change
\* that status() reports
C6_Witness ==
  /\ last.op = "commit"
  /\ head = index
  /\ \E p \in AllPaths :
       Exists(index[p]) /\ wt[p] # index[p] /\ WorktreeSlots(Status, p) # {}
  /\ \E p \in AllPaths : IsUntracked(index, wt, p)

(***************************************************************************)
(* C7: stage, unstage and ignore with an empty list are no-ops: the index, *)
(* the worktree and the ignore file are unchanged; ignore([]) neither      *)
(* creates nor stages the ignore file.                                     *)
(***************************************************************************)
C7_EmptyListNoOp ==
  [][(last'.op \in {"stage", "unstage", "ignore"} /\ last'.files = <<>>) =>
       /\ UNCHANGED <<head, index, wt>>
       /\ last'.err = "ok"]_vars

\* ignore([]) has run in a tree that has no ignore file
C7_Witness ==
  /\ last.op = "ignore"
  /\ last.files = <<>>
  /\ ~Exists(wt[GI])
  /\ ~Exists(index[GI])

(***************************************************************************)
(* C8: ignore([P]) is idempotent: from an ignore file that is missing or   *)
(* has no line P, one call leaves exactly one line equal to P, and a       *)
(* second call leaves exactly one still.                                   *)
(***************************************************************************)
C8_IgnoreOneLine ==
  [][\A n \in UserPaths :
       (/\ last'.op = "ignore"
        /\ last'.files = <<n>>
        /\ CountLines(wt[GI], Chars(n)) <= 1) =>
         CountLines(wt'[GI], Chars(n)) = 1]_vars

(***************************************************************************)
(* C9: ignore(paths) keeps every line of the ignore file unchanged and in  *)
(* order, whatever the file held before (a last line with no terminator    *)
(* included), and adds only the new entries, one per line in input order,  *)
(* each followed by a newline.                                             *)
(***************************************************************************)
C9_IgnoreKeepsLines ==
  [][(last'.op = "ignore" /\ last'.files # <<>>) =>
       /\ LinesOf(wt'[GI]) = LinesOf(wt[GI]) \o NewEntries(wt[GI], last'.files)
       /\ NewEntries(wt[GI], last'.files) # <<>> =>
            wt'[GI].data[Len(wt'[GI].data)] = NL]_vars

(***************************************************************************)
(* C10: after ignore(paths) with a non-empty list, the next status() has   *)
(* no "??" record for the ignore file and no record for a path of paths    *)
(* that was untracked (its one record was "??") before the call.           *)
(***************************************************************************)
C10_IgnoredNotReported ==
  [][(last'.op = "ignore" /\ last'.files # <<>>) =>
       /\ \A k \in 1..Len(StatusNext) :
            StatusNext[k] # [path |-> GI, status |-> Untracked]
       /\ \A p \in Range(last'.files) :
            {Status[k].status : k \in RecordsOf(Status, p)} = {Untracked}
              => RecordsOf(StatusNext, p) = {}]_vars

(***************************************************************************)
(* C17: diff(path, cached) returns the unified diff of that path (index    *)
(* against HEAD when cached, worktree against index otherwise); for a      *)
(* tracked file whose worktree content changed the result is not empty     *)
(* and holds a removed line for the old content and an added line for the  *)
(* new content.                                                            *)
(***************************************************************************)
RemovedLine(blob) == <<"-">> \o blob.data

AddedLine(blob) == <<"+">> \o blob.data

C17_DiffShowsChange ==
  \A p \in AllPaths :
    /\ (index[p].mode = "file" /\ wt[p].mode = "file" /\ index[p] # wt[p]) =>
         /\ RemovedLine(index[p]) \in Range(DiffOf(head, index, wt, p, FALSE))
         /\ AddedLine(wt[p]) \in Range(DiffOf(head, index, wt, p, FALSE))
    /\ (head[p].mode = "file" /\ index[p].mode = "file" /\ head[p] # index[p]) =>
         /\ RemovedLine(head[p]) \in Range(DiffOf(head, index, wt, p, TRUE))
         /\ AddedLine(index[p]) \in Range(DiffOf(head, index, wt, p, TRUE))

(***************************************************************************)
(* C19: a path with an index-vs-HEAD change of kind k1 and a               *)
(* worktree-vs-index change of kind k2 has one record, whose first         *)
(* character is the code of k1 and whose second is the code of k2 ("AD"    *)
(* for staged-added then deleted in the worktree); with only a worktree    *)
(* change the first character is blank, with only an index change the      *)
(* second is blank.                                                        *)
(***************************************************************************)
\* the code of a change kind: added, deleted, and M for anything else
KindCode(old, new) ==
  IF ChangeKind(old, new) \in {"A", "D"} THEN ChangeKind(old, new) ELSE "M"

\* p takes no part in a rename between HEAD and the index
NotRenamed(p) ==
  /\ ~IsRenameSource(head, index, p)
  /\ RenameSources(head, index, p) = {}

StagedChange(p) == head[p] # index[p]

WorktreeChange(p) == Exists(index[p]) /\ index[p] # wt[p]

C19_TwoSlotRecord ==
  \A p \in AllPaths :
    NotRenamed(p) =>
      /\ (StagedChange(p) /\ WorktreeChange(p)) =>
           {Status[k].status : k \in RecordsOf(Status, p)}
             = {<<KindCode(head[p], index[p]), KindCode(index[p], wt[p])>>}
      /\ (~StagedChange(p) /\ WorktreeChange(p)) =>
           \E k \in RecordsOf(Status, p) : Status[k].status[1] = SP
      /\ (StagedChange(p) /\ ~WorktreeChange(p)) =>
           \E k \in RecordsOf(Status, p) : Status[k].status[2] = SP

(***************************************************************************)
(* C20: status() puts the code of each index-vs-HEAD change in the first   *)
(* slot: A for a file added to the index and absent from HEAD, D for a     *)
(* file removed from the index, R for a renamed file, M for anything       *)
(* else; a path renamed in the index and then modified in the worktree is  *)
(* one record with R in the index slot.                                    *)
(***************************************************************************)
C20_IndexSlotCodes ==
  \A p \in AllPaths :
    /\ (NotRenamed(p) /\ StagedChange(p)) =>
         \E k \in RecordsOf(Status, p) : Status[k].status[1] = KindCode(head[p], index[p])
    /\ RenameSources(head, index, p) # {} =>
         /\ Cardinality(RecordsOf(Status, p)) = 1
         /\ \A k \in RecordsOf(Status, p) : Status[k].status[1] = "R"
         /\ \A src \in RenameSources(head, index, p) : RecordsOf(Status, src) = {}

(***************************************************************************)
(* C11: constructing a Repository on a path that does not exist, that has  *)
(* no .git, or that is a bare repository always fails with the one         *)
(* not-a-repository error (ValueError, the error open_repo catches).       *)
(***************************************************************************)
C11_ConstructFailsAsNotARepository ==
  (last.op = "construct" /\ last.files[1] \in {"missing", "plain", "bare"}) =>
    last.err = "ValueError"

(***************************************************************************)
(* C12: no mutating operation returns normally after the tool failed; in   *)
(* particular, when push returns normally the remote has taken the update: *)
(* its branch is at the local branch's commit.                             *)
(***************************************************************************)
C12_PushFailureRaises ==
  (last.op = "push" /\ last.err = "ok") =>
    remote_refs[PushBranch(last.files[2])] = heads[PushBranch(last.files[2])]

(***************************************************************************)
(* C13: after checkout_tag(name) of an existing tag HEAD points at no      *)
(* branch, and whenever HEAD points at no branch current_branch() fails    *)
(* with the detached-HEAD error, as does push_review with branch omitted.  *)
(***************************************************************************)
Detached == head_ref \notin BranchNames

C13_DetachedHeadFails ==
  /\ (last.op = "checkout_tag" /\ tags[last.files[1]] # 0) => Detached
  /\ Detached =>
       /\ current_branch.err = "TypeError"
       /\ \A remote \in RemoteNames : push_review(remote, None).err = "TypeError"

(***************************************************************************)
(* C14: push_review(remote, branch) returns one line per commit reachable  *)
(* from HEAD and not from remote/branch: nothing when there is no such     *)
(* commit, one line holding the summary of each such commit otherwise;     *)
(* with branch omitted the range is against remote/<current branch>.       *)
(***************************************************************************)
\* a text cut at its line terminators
RECURSIVE SplitLines(_)
SplitLines(text) ==
  IF text = <<>> THEN <<>>
  ELSE IF FirstNL(text, 1) = 0 THEN <<text>>
  ELSE <<SubSeq(text, 1, FirstNL(text, 1) - 1)>>
         \o SplitLines(SubSeq(text, FirstNL(text, 1) + 1, Len(text)))

Contains(line, part) ==
  \E k \in 0..(Len(line) - Len(part)) : SubSeq(line, k + 1, k + Len(part)) = part

\* the commits HEAD has and the remote's branch has not
NewCommits(branch) ==
  Ancestors(commits, HeadCommit) \ Ancestors(commits, remote_refs[branch])

C14_PushReviewLines ==
  \A remote \in RemoteNames : \A branch \in BranchNames \cup {None} :
    LET b == IF branch = None THEN head_ref ELSE branch
        review == push_review(remote, branch)
    IN  RemoteRef(remote, b) # 0 =>
          /\ review.err = "ok"
          /\ NewCommits(b) = {} => review.value = <<>>
          /\ Len(SplitLines(review.value)) = Cardinality(NewCommits(b))
          /\ \A c \in NewCommits(b) :
               \E k \in 1..Len(SplitLines(review.value)) :
                 Contains(SplitLines(review.value)[k], Summary(commits[c].message))

\* one new local commit, with a message of more than one line, reviewed with
\* the branch omitted
C14_Witness ==
  /\ last.op = "commit"
  /\ Len(last.files) > 1
  /\ RemoteRef("origin", head_ref) # 0
  /\ Cardinality(NewCommits(head_ref)) = 1
  /\ Len(SplitLines(push_review("origin", None).value)) = 1

(***************************************************************************)
(* C15: delete_branch(name) without force fails and leaves the branch      *)
(* listed when it has unmerged commits; delete_branch(name, force) on a    *)
(* branch that is not checked out removes it.                              *)
(***************************************************************************)
HasUnmerged(name) ==
  Ancestors(commits, heads[name]) \ Ancestors(commits, MergeTarget(name)) # {}

C15_DeleteBranch ==
  [][\A name \in BranchNames :
       /\ (last'.op = "delete_branch" /\ last'.files = <<name, "safe">>
             /\ heads[name] # 0 /\ HasUnmerged(name)) =>
            /\ last'.err # "ok"
            /\ heads'[name] = heads[name]
       /\ (last'.op = "delete_branch" /\ last'.files = <<name, "force">>
             /\ heads[name] # 0 /\ head_ref # name) =>
            /\ last'.err = "ok"
            /\ heads'[name] = 0]_vars

\* the branch was created, committed on, tagged, left and force-deleted
C15_Witness ==
  /\ last = Operation("delete_branch", <<"feature", "force">>, "ok")
  /\ "feature" \notin branches
  /\ head_ref = "master"
  /\ \E t \in TagNames : tags[t] # 0 /\ tags[t] \notin Ancestors(commits, HeadCommit)

(***************************************************************************)
(* C16: search_commits(pattern, author) returns the log lines of exactly   *)
(* the commits whose message matches pattern; after a commit, the commit   *)
(* just made is found by a token of its message.                           *)
(***************************************************************************)
SearchPatterns == {"init", "fix", "add"}

Matching(pattern) ==
  SelectSeq(RevList(commits, HeadCommit, {}),
            LAMBDA id : pattern \in Range(commits[id].message))

C16_SearchFindsMatches ==
  last.op = "commit" =>
    \A pattern \in SearchPatterns :
      /\ search_commits(pattern, None).err = "ok"
      /\ search_commits(pattern, None).value = JoinLines(commits, Matching(pattern))

(***************************************************************************)
(* C18: add_remote(name, url) with a name that is taken changes nothing    *)
(* and raises nothing: the remote keeps the URL of the first call.         *)
(***************************************************************************)
C18_AddRemoteIdempotent ==
  [][\A name \in RemoteNames :
       (last'.op = "add_remote" /\ last'.files[1] = name /\ remotes[name] # NoRemote) =>
         /\ remotes' = remotes
         /\ last'.err = "ok"]_vars

\* a second call, with another URL, after the call that created the remote
C18_Witness ==
  /\ last.op = "add_remote"
  /\ last.err = "ok"
  /\ remotes[last.files[1]] \notin {NoRemote, last.files[2]}

(***************************************************************************)
(* C23: right after a successful commit(message), status() has no record   *)
(* with a non-blank index slot other than "??" records: the index equals   *)
(* the new HEAD, and every record left is a worktree change or an          *)
(* untracked file.                                                         *)
(***************************************************************************)
C23_CleanIndexAfterCommit ==
  last.op = "commit" =>
    /\ index = head
    /\ \A k \in 1..Len(Status) :
         Status[k].status = Untracked \/ Status[k].status[1] = SP

\* a commit made with a tracked file changed in the worktree and an
\* untracked file on disk: both are still reported
C23_Witness ==
  /\ last.op = "commit"
  /\ \E k \in 1..Len(Status) : Status[k].status[1] = SP
  /\ \E k \in 1..Len(Status) : Status[k].status = Untracked
  /\ head["b"] # Absent

(***************************************************************************)
(* C21: starting from an ignore file with no repeated line, after any      *)
(* sequence of ignore calls, whatever their lists (a list naming a pattern *)
(* twice included), no pattern is on more than one line of the ignore      *)
(* file.                                                                   *)
(***************************************************************************)
\* the patterns of the ignore file, one per non-blank line, in file order
PatternsOf(blob) == StripNonEmpty(LinesOf(blob))

C21_NoRepeatedPattern ==
  \A j, k \in 1..Len(PatternsOf(wt[GI])) :
    PatternsOf(wt[GI])[j] = PatternsOf(wt[GI])[k] => j = k

(***************************************************************************)
(* C22: remove_submodule(path) on a submodule deinitializes it, removes    *)
(* the path from the index and cleans leftover files, in that order; with  *)
(* the submodule's directory missing it still completes without error and  *)
(* leaves no index entry for path.                                         *)
(***************************************************************************)
C22_RemoveSubmoduleSteps ==
  [][\A path \in SubPaths :
       (last'.op = "remove_submodule" /\ last'.files = <<path>> /\ path \in gitlinks) =>
         /\ last'.err = "ok"
         /\ calls' = <<"deinit", "rm", "clean">>
         /\ path \notin gitlinks']_vars

====
